---- MODULE Spec2Model ----
(***************************************************************************)
(* A model of the DeFi data tool: the Normalizer (src/data_formatter.js:   *)
(* five transformation rules and the batch driver processAllData) and the  *)
(* Collector (src/index.js: five category fetches and fetchAllData).       *)
(*                                                                         *)
(* JavaScript values are tagged records, so that values of different kinds *)
(* can be compared:                                                        *)
(*   undefined  [k |-> "undef"]          null    [k |-> "null"]            *)
(*   boolean    [k |-> "bool", v |-> b]  number  [k |-> "num", v |-> n]    *)
(*   string     [k |-> "str", v |-> s]   array   [k |-> "arr", v |-> seq]  *)
(*   object     [k |-> "obj", v |-> sequence of <<key, value>>], the       *)
(*              entries in insertion order, keys unique                    *)
(* An expression that raises (a TypeError or RangeError) evaluates to      *)
(* Thrown, which every operator propagates; a function whose evaluation    *)
(* raises returns Raised.                                                  *)
(***************************************************************************)
EXTENDS Integers, Sequences, FiniteSets, TLC

VARIABLES
    \* the transformation rules, called on one document
    rule, doc, out, applied,
    \* the batch driver processAllData and the files it reads and writes
    inputFile, outputFile, phase, idx, outcome, writes, before, lastGood,
    \* the Collector's fetchAllData, the network and the files it writes
    dataFile, cpc, inflight, resp, fetched, summary, cbefore, saved

ruleVars == <<rule, doc, out, applied>>
driverVars == <<inputFile, outputFile, phase, idx, outcome, writes, before, lastGood>>
collectorVars == <<dataFile, cpc, inflight, resp, fetched, summary, cbefore, saved>>
vars == <<ruleVars, driverVars, collectorVars>>

----------------------------------------------------------------------------
(* Bounds of the model.                                                    *)

\* longest container list (data, data.data, peggedAssets, protocols) drawn
MaxListLen == 2
\* longest totalDataChart drawn
MaxChartLen == 2

----------------------------------------------------------------------------
(* JavaScript values and the language's operations on them.                *)

Undef == [k |-> "undef"]
Null == [k |-> "null"]
Bool(b) == [k |-> "bool", v |-> b]
Num(n) == [k |-> "num", v |-> n]
Str(s) == [k |-> "str", v |-> s]
Arr(s) == [k |-> "arr", v |-> s]
Obj(e) == [k |-> "obj", v |-> e]
Thrown == [k |-> "throw"]

\* ToBoolean: what `if (v)`, `!v`, `a && b` and `a || b` test
Truthy(v) ==
    CASE v.k = "undef" -> FALSE
      [] v.k = "null" -> FALSE
      [] v.k = "bool" -> v.v
      [] v.k = "num" -> v.v # 0
      [] v.k = "str" -> v.v # ""
      [] OTHER -> TRUE

IsArray(v) == v.k = "arr"

HasKey(o, key) == \E j \in 1..Len(o.v) : o.v[j][1] = key

Lookup(o, key) == o.v[CHOOSE j \in 1..Len(o.v) : o.v[j][1] = key][2]

\* v.key: a TypeError on undefined and null, undefined for a missing
\* property; arrays and strings have a length
Get(v, key) ==
    CASE v.k = "throw" -> Thrown
      [] v.k \in {"undef", "null"} -> Thrown
      [] v.k = "obj" -> IF HasKey(v, key) THEN Lookup(v, key) ELSE Undef
      [] v.k = "arr" /\ key = "length" -> Num(Len(v.v))
      [] v.k = "str" /\ key = "length" -> Num(Len(v.v))
      [] OTHER -> Undef

\* v?.key
OptGet(v, key) ==
    IF v.k \in {"undef", "null"} THEN Undef ELSE Get(v, key)

\* v[0]
First(v) ==
    CASE v.k = "throw" -> Thrown
      [] v.k \in {"undef", "null"} -> Thrown
      [] v.k = "arr" -> IF Len(v.v) > 0 THEN v.v[1] ELSE Undef
      [] v.k = "str" -> IF Len(v.v) > 0 THEN Str(SubSeq(v.v, 1, 1)) ELSE Undef
      [] v.k = "obj" -> IF HasKey(v, "0") THEN Lookup(v, "0") ELSE Undef
      [] OTHER -> Undef

\* Object.entries(v) raises a TypeError on undefined and null
HasEntries(v) == v.k \notin {"undef", "null", "throw"}

\* Object.entries(v), as a sequence of <<key, value>>.  Keys that are
\* integer indices (which JavaScript lists first) do not occur in the
\* objects drawn here.
Entries(v) ==
    CASE v.k = "obj" -> v.v
      [] v.k = "arr" -> [i \in 1..Len(v.v) |-> <<ToString(i - 1), v.v[i]>>]
      [] v.k = "str" -> [i \in 1..Len(v.v) |-> <<ToString(i - 1), Str(SubSeq(v.v, i, i))>>]
      [] OTHER -> <<>>

\* an object literal { key: value, ... }: evaluating it raises when the
\* evaluation of one of its values raises
MkObj(e) ==
    IF \E j \in 1..Len(e) : e[j][2] = Thrown THEN Thrown ELSE Obj(e)

\* what a function returns, or that it raised
Ok(s) == [ok |-> TRUE, val |-> s]
Raised == [ok |-> FALSE]

\* list.map(f) / the records pushed by a loop: the call raises when one
\* callback raises
Collect(recs) ==
    IF \E i \in 1..Len(recs) : recs[i] = Thrown THEN Raised ELSE Ok(recs)

RECURSIVE Flatten(_)
Flatten(ss) ==
    IF Len(ss) = 0 THEN <<>> ELSE Head(ss) \o Flatten(Tail(ss))

\* JSON.stringify(v, null, 2), given as the JSON value the text denotes:
\* a property whose value is undefined is left out, an undefined array
\* element becomes null
RECURSIVE Stringify(_)
KeptEntries(e) == SelectSeq(e, LAMBDA p : p[2] # Undef)
Stringify(v) ==
    CASE v.k = "obj" ->
           LET kept == KeptEntries(v.v)
           IN  Obj([j \in 1..Len(kept) |-> <<kept[j][1], Stringify(kept[j][2])>>])
      [] v.k = "arr" ->
           Arr([i \in 1..Len(v.v) |->
                   IF v.v[i] = Undef THEN Null ELSE Stringify(v.v[i])])
      [] OTHER -> v

----------------------------------------------------------------------------
(* new Date(ts * 1000).toISOString().  The time value ts * 1000 is kept in *)
(* whole seconds (its milliseconds are then 0), for ts an integer of 32    *)
(* bits: the years 1901 to 2038, which toISOString writes with four        *)
(* digits.  NaN stands for an Invalid Date, on which toISOString raises a  *)
(* RangeError.                                                             *)

NaN == [k |-> "NaN"]

\* ToNumber(ts)
ToNumber(ts) ==
    CASE ts.k = "num" -> ts
      [] ts.k = "null" -> Num(0)
      [] ts.k = "bool" -> IF ts.v THEN Num(1) ELSE Num(0)
      [] OTHER -> NaN

Pad2(n) == IF n < 10 THEN "0" \o ToString(n) ELSE ToString(n)
Pad4(n) == IF n < 10 THEN "000" \o ToString(n)
           ELSE IF n < 100 THEN "00" \o ToString(n)
           ELSE IF n < 1000 THEN "0" \o ToString(n) ELSE ToString(n)

\* the civil date of a day number counted from 1970-01-01
CivilFromDays(z0) ==
    LET z == z0 + 719468
        era == z \div 146097
        doe == z - era * 146097
        yoe == (doe - doe \div 1460 + doe \div 36524 - doe \div 146096) \div 365
        doy == doe - (365 * yoe + yoe \div 4 - yoe \div 100)
        mp == (5 * doy + 2) \div 153
        d == doy - (153 * mp + 2) \div 5 + 1
        m == IF mp < 10 THEN mp + 3 ELSE mp - 9
        y == yoe + era * 400 + (IF m <= 2 THEN 1 ELSE 0)
    IN  [year |-> y, month |-> m, day |-> d]

\* the ISO-8601 text of the instant `secs` seconds after the epoch
toISOString(secs) ==
    LET date == CivilFromDays(secs \div 86400)
        tod == secs % 86400
    IN  Pad4(date.year) \o "-" \o Pad2(date.month) \o "-" \o Pad2(date.day)
        \o "T" \o Pad2(tod \div 3600) \o ":" \o Pad2((tod % 3600) \div 60)
        \o ":" \o Pad2(tod % 60) \o ".000Z"

----------------------------------------------------------------------------
(* The five transformation rules of the Normalizer.                       *)

\* a variant that stops one property short of the timestamp
CollectionTimestamp_OneLevelShort(data) ==
    Get(Get(data, "metadata"), "collection_info")

\* data.metadata.collection_info.timestamp
CollectionTimestamp(data) ==
    Get(Get(Get(data, "metadata"), "collection_info"), "timestamp")

\* the properties outKey: src.inKey of an object literal, in order
FieldMap(src, fields) ==
    [j \in 1..Len(fields) |-> <<fields[j][1], Get(src, fields[j][2])>>]

TvlFields ==
    << <<"protocol_name", "name">>, <<"protocol_id", "id">>,
       <<"protocol_symbol", "symbol">>, <<"protocol_url", "url">>,
       <<"description", "description">>, <<"chain", "chain">>,
       <<"category", "category">>, <<"tvl", "tvl">>,
       <<"tvl_change_1d", "change_1d">>, <<"tvl_change_7d", "change_7d">>,
       <<"tvl_change_1m", "change_1m">>, <<"audits", "audits">>,
       <<"audit_note", "audit_note">>, <<"mcap_tvl", "mcap_tvl">>,
       <<"forked", "forked">>, <<"module", "module">>,
       <<"listedAt", "listedAt">> >>

formatProtocolTvlData(data) ==
    IF \/ ~Truthy(data)
       \/ ~Truthy(Get(data, "data"))
       \/ ~IsArray(Get(data, "data"))
    THEN Ok(<<>>)
    ELSE LET list == Get(data, "data").v
         IN  Collect([i \in 1..Len(list) |->
                 MkObj(<< <<"timestamp", CollectionTimestamp(data)>> >>
                       \o FieldMap(list[i], TvlFields))])

\* one callback of totalDataChart.forEach(([ts, volume]) => ...): the
\* destructuring raises on an element that is not iterable, toISOString
\* on an Invalid Date.  Chart elements that are strings do not occur in
\* the documents drawn here.
HistoricalRecord(el) ==
    IF el.k # "arr" THEN Thrown
    ELSE LET ts == IF Len(el.v) >= 1 THEN el.v[1] ELSE Undef
             volume == IF Len(el.v) >= 2 THEN el.v[2] ELSE Undef
         IN  IF ToNumber(ts) = NaN THEN Thrown
             ELSE MkObj(<< <<"timestamp", Str(toISOString(ToNumber(ts).v))>>,
                           <<"total_volume", volume>>,
                           <<"type", Str("historical_total")>> >>)

HistoricalTotal(data) ==
    LET chart == Get(Get(data, "data"), "totalDataChart")
    IN  IF ~Truthy(chart) THEN Ok(<<>>)
        ELSE IF ~IsArray(chart) THEN Raised
        ELSE Collect([i \in 1..Len(chart.v) |-> HistoricalRecord(chart.v[i])])

DexSpecificRecord(timestamp, chain, dexName, volume, first) ==
    MkObj(<< <<"timestamp", timestamp>>,
             <<"type", Str("dex_specific")>>,
             <<"dex_name", Str(dexName)>>,
             <<"chain", Str(chain)>>,
             <<"volume_24h", volume>>,
             <<"volume_24h_change", Get(first, "change_1d")>>,
             <<"volume_7d_change", Get(first, "change_7dover7d")>>,
             <<"volume_30d_change", Get(first, "change_30dover30d")>> >>)

DexSpecific(data, timestamp) ==
    LET protocols == Get(Get(data, "data"), "protocols")
    IN  IF ~(/\ Truthy(protocols)
             /\ Truthy(First(protocols))
             /\ Truthy(Get(First(protocols), "breakdown24h")))
        THEN Ok(<<>>)
        ELSE LET first == First(protocols)
                 chains == Entries(Get(first, "breakdown24h"))
                 PerChain(c) ==
                     LET dexes == Entries(chains[c][2])
                     IN  [d \in 1..Len(dexes) |->
                             DexSpecificRecord(timestamp, chains[c][1],
                                               dexes[d][1], dexes[d][2], first)]
             IN  IF \E c \in 1..Len(chains) : ~HasEntries(chains[c][2])
                 THEN Raised
                 ELSE Collect(Flatten([c \in 1..Len(chains) |-> PerChain(c)]))

SummaryFields ==
    << <<"total_24h", "total24h">>, <<"total_48h_to_24h", "total48hto24h">>,
       <<"total_7d", "total7d">>, <<"total_14d_to_7d", "total14dto7d">>,
       <<"total_30d", "total30d">>, <<"total_60d_to_30d", "total60dto30d">>,
       <<"total_1y", "total1y">>, <<"total_alltime", "totalAllTime">>,
       <<"average_1y", "average1y">>, <<"volume_24h_change", "change_1d">>,
       <<"volume_7d_change", "change_7d">>, <<"volume_1m_change", "change_1m">>,
       <<"volume_7d_over_7d_change", "change_7dover7d">>,
       <<"volume_30d_over_30d_change", "change_30dover30d">> >>

\* a variant that emits the summary inside the breakdown's condition
VolumeSummary_NeedsBreakdown(data, timestamp) ==
    LET protocols == Get(Get(data, "data"), "protocols")
    IN  IF ~(/\ Truthy(protocols)
             /\ Truthy(First(protocols))
             /\ Truthy(Get(First(protocols), "breakdown24h")))
        THEN Ok(<<>>)
        ELSE Collect(<< MkObj(<< <<"timestamp", timestamp>>,
                                 <<"type", Str("volume_summary")>> >>
                              \o FieldMap(First(protocols), SummaryFields)) >>)

VolumeSummary(data, timestamp) ==
    LET protocols == Get(Get(data, "data"), "protocols")
    IN  IF ~(Truthy(protocols) /\ Truthy(First(protocols)))
        THEN Ok(<<>>)
        ELSE Collect(<< MkObj(<< <<"timestamp", timestamp>>,
                                 <<"type", Str("volume_summary")>> >>
                              \o FieldMap(First(protocols), SummaryFields)) >>)

formatDexVolumeData(data) ==
    IF ~Truthy(data) \/ ~Truthy(Get(data, "data"))
    THEN Ok(<<>>)
    ELSE LET timestamp == CollectionTimestamp(data)
         IN  IF timestamp = Thrown THEN Raised
             ELSE IF ~HistoricalTotal(data).ok THEN Raised
             ELSE IF ~DexSpecific(data, timestamp).ok THEN Raised
             ELSE IF ~VolumeSummary(data, timestamp).ok THEN Raised
             ELSE Ok(HistoricalTotal(data).val
                     \o DexSpecific(data, timestamp).val
                     \o VolumeSummary(data, timestamp).val)

YieldFields ==
    << <<"chain", "chain">>, <<"project", "project">>, <<"symbol", "symbol">>,
       <<"tvl_usd", "tvlUsd">>, <<"apy_base", "apyBase">>,
       <<"apy_reward", "apyReward">>, <<"apy", "apy">>,
       <<"reward_tokens", "rewardTokens">>, <<"il_risk", "ilRisk">>,
       <<"exposure", "exposure">> >>

PredictionFields == <<"predictedClass", "predictedProbability", "binnedConfidence">>

\* a variant without the optional chaining: pool.predictions.field
PredictionField_NoOptionalChaining(pool, field) ==
    Get(Get(pool, "predictions"), field)

\* pool.predictions?.field
PredictionField(pool, field) == OptGet(Get(pool, "predictions"), field)

Predictions(pool) ==
    MkObj([j \in 1..Len(PredictionFields) |->
              <<PredictionFields[j], PredictionField(pool, PredictionFields[j])>>])

formatYieldPoolData(data) ==
    IF \/ ~Truthy(data)
       \/ ~Truthy(Get(data, "data"))
       \/ ~Truthy(Get(Get(data, "data"), "data"))
       \/ ~IsArray(Get(Get(data, "data"), "data"))
    THEN Ok(<<>>)
    ELSE LET list == Get(Get(data, "data"), "data").v
         IN  Collect([i \in 1..Len(list) |->
                 MkObj(<< <<"timestamp", CollectionTimestamp(data)>> >>
                       \o FieldMap(list[i], YieldFields)
                       \o << <<"predictions", Predictions(list[i])>> >>)])

StablecoinFields ==
    << <<"id", "id">>, <<"name", "name">>, <<"symbol", "symbol">>,
       <<"price", "price">>, <<"circulating_supply", "circulating">>,
       <<"market_cap", "peggedUSD">>, <<"chains", "chains">>,
       <<"peg_type", "pegType">>, <<"peg_mechanism", "pegMechanism">>,
       <<"price_change_24h", "priceChange24h">>,
       <<"market_cap_change_24h", "marketCapChange24h">>,
       <<"circulating_change_24h", "circulatingChange24h">>,
       <<"circulating_change_7d", "circulatingChange7d">>,
       <<"circulating_change_1m", "circulatingChange1m">> >>

formatStablecoinData(data) ==
    IF \/ ~Truthy(data)
       \/ ~Truthy(Get(data, "data"))
       \/ ~Truthy(Get(Get(data, "data"), "peggedAssets"))
       \/ ~IsArray(Get(Get(data, "data"), "peggedAssets"))
    THEN Ok(<<>>)
    ELSE LET list == Get(Get(data, "data"), "peggedAssets").v
         IN  Collect([i \in 1..Len(list) |->
                 MkObj(<< <<"timestamp", CollectionTimestamp(data)>> >>
                       \o FieldMap(list[i], StablecoinFields))])

FeeFields ==
    << <<"protocol_name", "name">>, <<"protocol_slug", "slug">>,
       <<"category", "category">>, <<"total_fees_24h", "totalFees24h">>,
       <<"total_revenue_24h", "totalRevenue24h">>,
       <<"fees_change_24h", "feesChange24h">>,
       <<"revenue_change_24h", "revenueChange24h">> >>

formatProtocolFeeData(data) ==
    IF \/ ~Truthy(data)
       \/ ~Truthy(Get(data, "data"))
       \/ ~IsArray(Get(Get(data, "data"), "protocols"))
    THEN Ok(<<>>)
    ELSE LET list == Get(Get(data, "data"), "protocols").v
         IN  Collect([i \in 1..Len(list) |->
                 MkObj(<< <<"timestamp", CollectionTimestamp(data)>> >>
                       \o FieldMap(list[i], FeeFields))])

\* the five categories, in the order of dataFiles, and their processors
Category == 1..5
Tvl == 1
Dex == 2
Yield == 3
Stable == 4
Fee == 5

processor(c, data) ==
    CASE c = Tvl -> formatProtocolTvlData(data)
      [] c = Dex -> formatDexVolumeData(data)
      [] c = Yield -> formatYieldPoolData(data)
      [] c = Stable -> formatStablecoinData(data)
      [] c = Fee -> formatProtocolFeeData(data)

----------------------------------------------------------------------------
(* The documents the rules are called on: JSON values as JSON.parse gives  *)
(* them (no undefined inside), well-formed and malformed.                  *)

SeqsUpTo(S, n) == UNION {[1..len -> S] : len \in 0..n}

\* the collection time the collector declares
CollectedAt == Str("2025-04-15T22:09:43.110634")

\* the `metadata` property of a document: missing, without collection_info,
\* collection_info of the wrong kind, without timestamp, and complete
MetadataVariants ==
    { <<>>,
      << <<"metadata", Obj(<<>>)>> >>,
      << <<"metadata", Obj(<< <<"collection_info", Null>> >>)>> >>,
      << <<"metadata", Obj(<< <<"collection_info", Str("n/a")>> >>)>> >>,
      << <<"metadata", Obj(<< <<"collection_info", Obj(<<>>)>> >>)>> >>,
      << <<"metadata", Obj(<< <<"collection_info",
                                Obj(<< <<"timestamp", CollectedAt>> >>)>> >>)>> >> }

ProtocolFull ==
    Obj(<< <<"id", Str("111")>>, <<"name", Str("Aave")>>,
           <<"symbol", Str("AAVE")>>, <<"url", Str("https://aave.com")>>,
           <<"description", Str("lending")>>, <<"chain", Str("Multi-Chain")>>,
           <<"category", Str("Lending")>>, <<"tvl", Num(1000000)>>,
           <<"change_1d", Num(1)>>, <<"change_7d", Num(-2)>>,
           <<"change_1m", Num(3)>>, <<"audits", Str("2")>>,
           <<"audit_note", Null>>, <<"mcap_tvl", Num(0)>>,
           <<"forked", Arr(<<>>)>>, <<"module", Str("aave/index.js")>>,
           <<"listedAt", Num(1600000000)>> >>)
ProtocolSparse == Obj(<< <<"name", Str("Lido")>>, <<"tvl", Num(500)>> >>)
TvlProtocols == {ProtocolFull, ProtocolSparse, Null}

ChartPairs ==
    { Arr(<<Num(1460419200), Num(1000000)>>),
      Arr(<<Num(1713225661), Num(2500000)>>) }

ChartVariants ==
    { <<>>, << <<"totalDataChart", Num(7)>> >> }
    \cup { << <<"totalDataChart", Arr(s)>> >> : s \in SeqsUpTo(ChartPairs, MaxChartLen) }

BreakdownVariants ==
    { <<>>,
      << <<"breakdown24h", Obj(<<>>)>> >>,
      << <<"breakdown24h", Obj(<< <<"ethereum", Null>> >>)>> >>,
      << <<"breakdown24h",
           Obj(<< <<"ethereum", Obj(<< <<"uniswap", Num(500)>>,
                                       <<"curve", Num(300)>> >>)>> >>)>> >>,
      << <<"breakdown24h",
           Obj(<< <<"ethereum", Obj(<< <<"uniswap", Num(500)>> >>)>>,
                  <<"bsc", Obj(<< <<"pancakeswap", Num(200)>> >>)>> >>)>> >> }

DexEntryFields ==
    << <<"total24h", Num(800)>>, <<"total7d", Num(5600)>>,
       <<"change_1d", Num(4)>>, <<"change_7dover7d", Num(-1)>>,
       <<"change_30dover30d", Num(9)>> >>

DexEntries == { Obj(DexEntryFields \o b) : b \in BreakdownVariants }

OtherDexEntry == Obj(<< <<"total24h", Num(1)>>,
                        <<"breakdown24h", Obj(<< <<"solana", Obj(<< <<"orca", Num(9)>> >>)>> >>)>> >>)

DexProtocolsVariants ==
    { <<>>, << <<"protocols", Arr(<<>>)>> >>, << <<"protocols", Obj(<<>>)>> >> }
    \cup { << <<"protocols", Arr(<<e>>)>> >> : e \in DexEntries }
    \cup { << <<"protocols", Arr(<<e, OtherDexEntry>>)>> >> : e \in DexEntries }

DexData == { Obj(c \o p) : c \in ChartVariants, p \in DexProtocolsVariants }

PoolFull ==
    Obj(<< <<"chain", Str("Ethereum")>>, <<"project", Str("lido")>>,
           <<"symbol", Str("STETH")>>, <<"tvlUsd", Num(9000)>>,
           <<"apyBase", Num(3)>>, <<"apyReward", Null>>, <<"apy", Num(3)>>,
           <<"rewardTokens", Null>>, <<"ilRisk", Str("no")>>,
           <<"exposure", Str("single")>>,
           <<"predictions", Obj(<< <<"predictedClass", Str("Stable/Up")>>,
                                   <<"predictedProbability", Num(75)>>,
                                   <<"binnedConfidence", Num(2)>> >>)>> >>)
PoolNoPredictions ==
    Obj(<< <<"chain", Str("Arbitrum")>>, <<"project", Str("gmx")>>,
           <<"symbol", Str("GLP")>>, <<"tvlUsd", Num(700)>> >>)
PoolPartialPredictions ==
    Obj(<< <<"chain", Str("Base")>>, <<"project", Str("aero")>>,
           <<"predictions", Obj(<< <<"predictedClass", Null>> >>)>> >>)
Pools == {PoolFull, PoolNoPredictions, PoolPartialPredictions}

YieldData ==
    { Obj(<< <<"status", Str("success")>> >>),
      Obj(<< <<"status", Str("success")>>, <<"data", Str("none")>> >>) }
    \cup { Obj(<< <<"status", Str("success")>>, <<"data", Arr(s)>> >>) :
              s \in SeqsUpTo(Pools, MaxListLen) }

CoinFull ==
    Obj(<< <<"id", Str("1")>>, <<"name", Str("Tether")>>,
           <<"symbol", Str("USDT")>>, <<"price", Num(1)>>,
           <<"circulating", Obj(<< <<"peggedUSD", Num(100)>> >>)>>,
           <<"chains", Arr(<<Str("Ethereum"), Str("Tron")>>)>>,
           <<"pegType", Str("peggedUSD")>>,
           <<"pegMechanism", Str("fiat-backed")>> >>)
CoinSparse == Obj(<< <<"name", Str("DAI")>> >>)
Coins == {CoinFull, CoinSparse}

StableData ==
    { Obj(<< <<"peggedAssets", Obj(<<>>)>> >>) }
    \cup { Obj(<< <<"peggedAssets", Arr(s)>> >>) : s \in SeqsUpTo(Coins, MaxListLen) }

FeeEntryFull ==
    Obj(<< <<"name", Str("Uniswap")>>, <<"slug", Str("uniswap")>>,
           <<"category", Str("Dexes")>>, <<"totalFees24h", Num(50)>>,
           <<"totalRevenue24h", Num(10)>>, <<"feesChange24h", Num(-3)>>,
           <<"revenueChange24h", Num(2)>> >>)
FeeEntrySparse == Obj(<< <<"name", Str("Maker")>>, <<"total24h", Num(7)>> >>)
FeeEntries == {FeeEntryFull, FeeEntrySparse}

FeeData ==
    { Obj(<< <<"protocols", Arr(s)>> >>) : s \in SeqsUpTo(FeeEntries, MaxListLen) }

TvlData == { Arr(s) : s \in SeqsUpTo(TvlProtocols, MaxListLen) }

\* the `data` property of a document: missing, null, of a wrong kind, or
\* the payload of one of the five categories
DataVariants ==
    { <<>>, << <<"data", Null>> >>, << <<"data", Str("error")>> >> }
    \cup { << <<"data", d>> >> :
              d \in TvlData \cup DexData \cup YieldData \cup StableData \cup FeeData }

Docs ==
    { Null, Str("not a document") }
    \cup { Obj(d \o m) : d \in DataVariants, m \in MetadataVariants }

----------------------------------------------------------------------------
(* Calling one rule on one document.                                       *)

NotRun == [ok |-> FALSE, pending |-> TRUE]

RulesInit ==
    /\ rule \in Category
    /\ doc \in Docs
    /\ out = NotRun
    /\ applied = FALSE

Call(c) ==
    /\ ~applied
    /\ rule = c
    /\ out' = processor(c, doc)
    /\ applied' = TRUE
    /\ UNCHANGED <<rule, doc>>

CallFormatProtocolTvlData == Call(Tvl) /\ UNCHANGED <<driverVars, collectorVars>>
CallFormatDexVolumeData == Call(Dex) /\ UNCHANGED <<driverVars, collectorVars>>
CallFormatYieldPoolData == Call(Yield) /\ UNCHANGED <<driverVars, collectorVars>>
CallFormatStablecoinData == Call(Stable) /\ UNCHANGED <<driverVars, collectorVars>>
CallFormatProtocolFeeData == Call(Fee) /\ UNCHANGED <<driverVars, collectorVars>>

RulesNext ==
    \/ CallFormatProtocolTvlData
    \/ CallFormatDexVolumeData
    \/ CallFormatYieldPoolData
    \/ CallFormatStablecoinData
    \/ CallFormatProtocolFeeData

----------------------------------------------------------------------------
(* The batch driver processAllData.  inputFile[c] and outputFile[c] are    *)
(* the contents of the input and output paths of dataFiles[c]; one step    *)
(* of the model is one callback of dataFiles.forEach.  outcome, writes,    *)
(* before and lastGood record what the current run did, what the output    *)
(* files held when it started and the last non-empty result of each        *)
(* category.                                                               *)

\* an input path with no file, or with text JSON.parse rejects
Unreadable == [k |-> "unreadable"]
\* an output path with no file
Absent == [k |-> "absent"]

FullMetadata ==
    <<"metadata", Obj(<< <<"collection_info", Obj(<< <<"timestamp", CollectedAt>> >>)>> >>)>>

GoodData(c) ==
    CASE c = Tvl -> Arr(<<ProtocolFull>>)
      [] c = Dex -> Obj(<< <<"totalDataChart", Arr(<<Arr(<<Num(1460419200), Num(1000000)>>)>>)>>,
                           <<"protocols", Arr(<<Obj(DexEntryFields)>>)>> >>)
      [] c = Yield -> Obj(<< <<"status", Str("success")>>, <<"data", Arr(<<PoolNoPredictions>>)>> >>)
      [] c = Stable -> Obj(<< <<"peggedAssets", Arr(<<CoinFull>>)>> >>)
      [] c = Fee -> Obj(<< <<"protocols", Arr(<<FeeEntryFull>>)>> >>)

\* a complete document of the category
GoodDoc(c) == Obj(<< <<"data", GoodData(c)>>, FullMetadata >>)
\* the same payload, stored without metadata
NoMetadataDoc(c) == Obj(<< <<"data", GoodData(c)>> >>)
\* a second complete TVL document, and a yield document without its list
OtherTvlDoc == Obj(<< <<"data", Arr(<<ProtocolSparse, ProtocolFull>>)>>, FullMetadata >>)
NoListYieldDoc == Obj(<< <<"data", Obj(<< <<"status", Str("error")>> >>)>>, FullMetadata >>)

DriverDocs(c) ==
    {Unreadable, GoodDoc(c), NoMetadataDoc(c)}
    \cup (IF c = Tvl THEN {OtherTvlDoc} ELSE {})
    \cup (IF c = Yield THEN {NoListYieldDoc} ELSE {})

\* readJsonFile: the parsed document, or null when reading or parsing fails
readJsonFile(file) == IF file = Unreadable THEN Null ELSE file

\* a variant that writes whatever the processor returned
ShouldWrite_Always(formattedData) == TRUE

\* `formattedData.length > 0`
ShouldWrite(formattedData) == Len(formattedData) > 0

\* a variant that appends the records to the array the file holds
WriteOutput_Append(old, formattedData) ==
    IF old.k = "arr"
    THEN Arr(old.v \o Stringify(Arr(formattedData)).v)
    ELSE Stringify(Arr(formattedData))

\* fs.writeFileSync(output, JSON.stringify(formattedData, null, 2)): the
\* content of the output path after the call, given its content before
WriteOutput(old, formattedData) == Stringify(Arr(formattedData))

DriverInit ==
    /\ inputFile = [c \in Category |-> Unreadable]
    /\ outputFile = [c \in Category |-> Absent]
    /\ phase = "idle"
    /\ idx = 1
    /\ outcome = [c \in Category |-> "pending"]
    /\ writes = [c \in Category |-> 0]
    /\ before = [c \in Category |-> Absent]
    /\ lastGood = [c \in Category |-> Absent]

\* the environment (a collector run, the operator) replaces an input file
\* while the formatter is not running
EditInput(c, d) ==
    /\ phase = "idle"
    /\ d # inputFile[c]
    /\ inputFile' = [inputFile EXCEPT ![c] = d]
    /\ UNCHANGED <<outputFile, phase, idx, outcome, writes, before, lastGood>>

\* `node data_formatter.js`: processAllData is entered
StartRun ==
    /\ phase = "idle"
    /\ phase' = "running"
    /\ idx' = 1
    /\ outcome' = [c \in Category |-> "pending"]
    /\ writes' = [c \in Category |-> 0]
    /\ before' = outputFile
    /\ UNCHANGED <<inputFile, outputFile, lastGood>>

\* what the callback on dataFiles[c] met: an unreadable input, a processor
\* that raised, an empty result or a non-empty one
Met(c) ==
    LET data == readJsonFile(inputFile[c])
    IN  IF ~Truthy(data) THEN "unreadable"
        ELSE IF ~processor(c, data).ok THEN "raised"
        ELSE IF Len(processor(c, data).val) = 0 THEN "empty"
        ELSE "nonempty"

\* one callback of dataFiles.forEach, on dataFiles[idx]; an exception of
\* the processor leaves forEach and processAllData and ends the process
ProcessFile ==
    /\ phase = "running"
    /\ idx \in Category
    /\ LET c == idx
           data == readJsonFile(inputFile[c])
           formattedData == processor(c, data)
       IN  /\ IF ~Truthy(data)
              THEN /\ idx' = idx + 1
                   /\ UNCHANGED <<outputFile, phase, writes>>
              ELSE IF ~formattedData.ok
              THEN /\ phase' = "crashed"
                   /\ UNCHANGED <<outputFile, idx, writes>>
              ELSE IF ShouldWrite(formattedData.val)
              THEN /\ outputFile' = [outputFile EXCEPT
                                        ![c] = WriteOutput(outputFile[c], formattedData.val)]
                   /\ writes' = [writes EXCEPT ![c] = @ + 1]
                   /\ idx' = idx + 1
                   /\ UNCHANGED phase
              ELSE /\ idx' = idx + 1
                   /\ UNCHANGED <<outputFile, phase, writes>>
           /\ outcome' = [outcome EXCEPT ![c] = Met(c)]
           /\ lastGood' = IF Met(c) = "nonempty"
                          THEN [lastGood EXCEPT ![c] = Stringify(Arr(formattedData.val))]
                          ELSE lastGood
    /\ UNCHANGED <<inputFile, before>>

\* console.log('All data formatting completed!')
Finish ==
    /\ phase = "running"
    /\ idx = 6
    /\ phase' = "done"
    /\ UNCHANGED <<inputFile, outputFile, idx, outcome, writes, before, lastGood>>

\* the process ends
Exit ==
    /\ phase \in {"done", "crashed"}
    /\ phase' = "idle"
    /\ idx' = 1
    /\ outcome' = [c \in Category |-> "pending"]
    /\ writes' = [c \in Category |-> 0]
    /\ before' = outputFile
    /\ UNCHANGED <<inputFile, outputFile, lastGood>>

DriverNext ==
    \/ \E c \in Category : \E d \in DriverDocs(c) :
          EditInput(c, d) /\ UNCHANGED <<ruleVars, collectorVars>>
    \/ StartRun /\ UNCHANGED <<ruleVars, collectorVars>>
    \/ ProcessFile /\ UNCHANGED <<ruleVars, collectorVars>>
    \/ Finish /\ UNCHANGED <<ruleVars, collectorVars>>
    \/ Exit /\ UNCHANGED <<ruleVars, collectorVars>>

----------------------------------------------------------------------------
(* The Collector: fetchAllData and its five category fetches.  A fetch is  *)
(* two steps, the GET being issued and its await resuming; cpc is the      *)
(* category fetchAllData is at (6: all awaited, 7: returned).  resp, saved *)
(* and cbefore record the network's answers, the calls of saveData and the *)
(* data files found at the start.                                          *)

\* axios.get rejects: a network error, a non-2xx status
Failure == [k |-> "failure"]
NoResponse == [k |-> "none"]
Pending == [k |-> "pending"]
NoSummary == [k |-> "none"]

\* the bodies a GET may answer: an empty body, a list, an object holding a
\* `protocols` list, and a text body that is not JSON
Bodies ==
    { Str(""),
      Arr(<<ProtocolFull, ProtocolSparse>>),
      Obj(<< <<"protocols", Arr(<<FeeEntryFull>>)>> >>),
      Str("ab") }

Responses == {Failure} \cup Bodies

\* a payload saved by an earlier run
OldPayload == Arr(<<ProtocolSparse>>)

\* fetchData: response.data, or null when axios.get rejects
fetchData(response) == IF response = Failure THEN Null ELSE response

\* a variant that saves without testing the payload
Obtained_Always(data) == TRUE

\* `if (data)` of a category fetch
Obtained(data) == Truthy(data)

\* saveData: the content of ./data/<filename>.json after the call
saveData(data, old) == Stringify(data)

\* `v?.length || 0`
LengthOrZero(v) ==
    LET length == OptGet(v, "length")
    IN  IF Truthy(length) THEN length ELSE Num(0)

\* `v?.protocols?.length || 0`
ProtocolsLengthOrZero(v) == LengthOrZero(OptGet(v, "protocols"))

CollectorInit ==
    /\ dataFile \in [Category -> {Absent, OldPayload}]
    /\ cbefore = dataFile
    /\ cpc = 1
    /\ inflight = {}
    /\ resp = [c \in Category |-> NoResponse]
    /\ fetched = [c \in Category |-> Pending]
    /\ summary = NoSummary
    /\ saved = [c \in Category |-> 0]

\* a category fetch is called: it logs and issues its GET
BeginFetch(c) ==
    /\ cpc = c
    /\ c \notin inflight
    /\ inflight' = inflight \cup {c}
    /\ UNCHANGED <<dataFile, cpc, resp, fetched, summary, cbefore, saved>>

\* the GET of category c settles with response r: fetchData returns, the
\* category fetch saves and returns, and fetchAllData's await resumes
CompleteFetch(c, r) ==
    /\ c \in inflight
    /\ LET data == fetchData(r)
       IN  /\ resp' = [resp EXCEPT ![c] = r]
           /\ IF Obtained(data)
              THEN /\ dataFile' = [dataFile EXCEPT ![c] = saveData(data, dataFile[c])]
                   /\ saved' = [saved EXCEPT ![c] = @ + 1]
                   /\ fetched' = [fetched EXCEPT ![c] = data]
              ELSE /\ fetched' = [fetched EXCEPT ![c] = Null]
                   /\ UNCHANGED <<dataFile, saved>>
    /\ inflight' = inflight \ {c}
    /\ cpc' = c + 1
    /\ UNCHANGED <<summary, cbefore>>

\* 'All data fetching completed!' and the summary fetchAllData returns
ReturnSummary ==
    /\ cpc = 6
    /\ summary' = [protocolCount |-> LengthOrZero(fetched[Tvl]),
                   dexCount |-> ProtocolsLengthOrZero(fetched[Dex]),
                   poolCount |-> LengthOrZero(fetched[Yield]),
                   stablecoinCount |-> LengthOrZero(fetched[Stable]),
                   feeProtocolCount |-> ProtocolsLengthOrZero(fetched[Fee])]
    /\ cpc' = 7
    /\ UNCHANGED <<dataFile, inflight, resp, fetched, cbefore, saved>>

CollectorNext ==
    \/ \E c \in Category : BeginFetch(c) /\ UNCHANGED <<ruleVars, driverVars>>
    \/ \E c \in Category : \E r \in Responses :
          CompleteFetch(c, r) /\ UNCHANGED <<ruleVars, driverVars>>
    \/ ReturnSummary /\ UNCHANGED <<ruleVars, driverVars>>

----------------------------------------------------------------------------
(* The three specifications: the rules called on a document, runs of the   *)
(* batch driver, and a run of the Collector.  The part of the state a      *)
(* specification does not use stays at rest.                               *)

RulesAtRest ==
    /\ rule = Tvl
    /\ doc = Null
    /\ out = NotRun
    /\ applied = TRUE

DriverAtRest == DriverInit

CollectorAtRest ==
    /\ dataFile = [c \in Category |-> Absent]
    /\ cbefore = dataFile
    /\ cpc = 7
    /\ inflight = {}
    /\ resp = [c \in Category |-> NoResponse]
    /\ fetched = [c \in Category |-> Pending]
    /\ summary = NoSummary
    /\ saved = [c \in Category |-> 0]

InitRules == RulesInit /\ DriverAtRest /\ CollectorAtRest
SpecRules == InitRules /\ [][RulesNext]_vars

InitDriver == RulesAtRest /\ DriverInit /\ CollectorAtRest
SpecDriver == InitDriver /\ [][DriverNext]_vars

InitCollector == RulesAtRest /\ DriverAtRest /\ CollectorInit
SpecCollector == InitCollector /\ [][CollectorNext]_vars

----------------------------------------------------------------------------
(* What the claims speak of, read off a document without calling a rule.   *)

\* metadata.collection_info, undefined when the path is missing
DeclaredInfo(d) == OptGet(OptGet(d, "metadata"), "collection_info")

\* the document's declared collection time, undefined when it declares none
DeclaredCollectionTime(d) == OptGet(DeclaredInfo(d), "timestamp")

\* the `data` field of a document
DataOf(d) == OptGet(d, "data")

\* the container list of a list-based rule
ContainerOf(c, d) ==
    CASE c = Tvl -> DataOf(d)
      [] c = Yield -> OptGet(DataOf(d), "data")
      [] c = Stable -> OptGet(DataOf(d), "peggedAssets")
      [] c = Fee -> OptGet(DataOf(d), "protocols")
      [] OTHER -> Undef

ListRules == {Tvl, Yield, Stable, Fee}

\* absent, or structurally invalid for rule c: the `data` field, the
\* expected container under it or metadata.collection_info is missing or
\* of the wrong kind
StructurallyInvalid(c, d) ==
    \/ d.k # "obj"
    \/ DataOf(d).k \notin {"obj", "arr"}
    \/ c = Tvl /\ DataOf(d).k # "arr"
    \/ c # Tvl /\ DataOf(d).k # "obj"
    \/ c \in ListRules /\ ContainerOf(c, d).k # "arr"
    \/ DeclaredInfo(d).k # "obj"

TypeOf(rec) == Get(rec, "type")
TimestampOf(rec) == Get(rec, "timestamp")

----------------------------------------------------------------------------
(* Claims about the transformation rules, under SpecRules.                 *)

\* C1 (as claimed): a rule called on an absent or structurally invalid
\* document returns the empty sequence and does not raise.
C1_InvalidInputYieldsEmpty ==
    (applied /\ StructurallyInvalid(rule, doc)) => out = Ok(<<>>)

----------------------------------------------------------------------------
(* C9: the three sections of the DEX volume rule.                          *)

IsObjects(list) == \A i \in 1..Len(list.v) : list.v[i].k = "obj"

ChartOf(d) == OptGet(DataOf(d), "totalDataChart")
ProtocolsOf(d) == OptGet(DataOf(d), "protocols")
FirstEntryOf(d) ==
    IF ProtocolsOf(d).k = "arr" /\ Len(ProtocolsOf(d).v) > 0
    THEN ProtocolsOf(d).v[1] ELSE Undef
BreakdownOf(d) == OptGet(FirstEntryOf(d), "breakdown24h")

\* a DEX volume document whose sections, where present, have their kind: a
\* chart of (epoch seconds, volume) pairs, a list of protocol entries, a
\* breakdown of chains holding DEX volumes
WellFormedDex(d) ==
    /\ d.k = "obj" /\ DataOf(d).k = "obj" /\ DeclaredInfo(d).k = "obj"
    /\ ChartOf(d).k \in {"undef", "arr"}
    /\ ChartOf(d).k = "arr" =>
          \A i \in 1..Len(ChartOf(d).v) :
              LET pair == ChartOf(d).v[i]
              IN  pair.k = "arr" /\ Len(pair.v) = 2
                  /\ pair.v[1].k = "num" /\ pair.v[2].k = "num"
    /\ ProtocolsOf(d).k \in {"undef", "arr"}
    /\ ProtocolsOf(d).k = "arr" => IsObjects(ProtocolsOf(d))
    /\ BreakdownOf(d).k \in {"undef", "obj"}
    /\ BreakdownOf(d).k = "obj" =>
          \A c \in 1..Len(BreakdownOf(d).v) : BreakdownOf(d).v[c][2].k = "obj"

ChartLen(d) == IF ChartOf(d).k = "arr" THEN Len(ChartOf(d).v) ELSE 0

\* the (chain, dex, volume) triples of the first entry's breakdown24h
BreakdownPairs(d) ==
    IF BreakdownOf(d).k # "obj" THEN {}
    ELSE UNION { LET chain == BreakdownOf(d).v[c]
                 IN  { <<chain[1], chain[2].v[x][1], chain[2].v[x][2]>> :
                          x \in 1..Len(chain[2].v) } :
                 c \in 1..Len(BreakdownOf(d).v) }

OfType(recs, type) == SelectSeq(recs, LAMBDA r : TypeOf(r) = Str(type))
NotOfType(recs, type) == SelectSeq(recs, LAMBDA r : TypeOf(r) # Str(type))

SectionRank(rec) ==
    CASE TypeOf(rec) = Str("historical_total") -> 1
      [] TypeOf(rec) = Str("dex_specific") -> 2
      [] TypeOf(rec) = Str("volume_summary") -> 3
      [] OTHER -> 0

RemoveKey(o, key) == Obj(SelectSeq(o.v, LAMBDA p : p[1] # key))
SetKey(o, key, val) ==
    Obj([j \in 1..Len(o.v) |-> IF o.v[j][1] = key THEN <<key, val>> ELSE o.v[j]])

\* the document without one of its sections
WithoutChart(d) == SetKey(d, "data", RemoveKey(DataOf(d), "totalDataChart"))
WithoutProtocols(d) == SetKey(d, "data", RemoveKey(DataOf(d), "protocols"))
WithoutBreakdown(d) ==
    IF FirstEntryOf(d).k # "obj" THEN d
    ELSE SetKey(d, "data",
             SetKey(DataOf(d), "protocols",
                 Arr(<<RemoveKey(FirstEntryOf(d), "breakdown24h")>>
                     \o Tail(ProtocolsOf(d).v))))

----------------------------------------------------------------------------
(* C10: the four list-based rules.                                         *)

\* a document of a list-based rule whose container is a list of objects and
\* that declares its collection info
WellFormedList(c, d) ==
    /\ d.k = "obj" /\ DeclaredInfo(d).k = "obj"
    /\ ContainerOf(c, d).k = "arr"
    /\ IsObjects(ContainerOf(c, d))

\* a field of the record and the field of the element it is copied from
IdentityField(c) ==
    CASE c = Tvl -> <<"protocol_name", "name">>
      [] c = Yield -> <<"project", "project">>
      [] c = Stable -> <<"name", "name">>
      [] c = Fee -> <<"protocol_name", "name">>

\* C10: on a well-formed document a list-based rule returns one record per
\* element of its container list, in the list's order (the record count is
\* the list length); a yield pool without `predictions` still gives its
\* record, whose predictions object has the three sub-fields undefined; a
\* document without a `data` field gives no record.
C10_OneRecordPerElement ==
    (applied /\ rule \in ListRules) =>
        /\ WellFormedList(rule, doc) =>
              LET list == ContainerOf(rule, doc).v
              IN  /\ out.ok
                  /\ Len(out.val) = Len(list)
                  /\ \A i \in 1..Len(list) :
                        /\ Get(out.val[i], IdentityField(rule)[1])
                              = Get(list[i], IdentityField(rule)[2])
                        /\ rule = Yield =>
                              LET p == Get(out.val[i], "predictions")
                                  src == Get(list[i], "predictions")
                              IN  /\ p.k = "obj"
                                  /\ Len(p.v) = 3
                                  /\ \A j \in 1..3 :
                                        /\ p.v[j][1] = PredictionFields[j]
                                        /\ p.v[j][2] = OptGet(src, PredictionFields[j])
        /\ (doc.k = "obj" /\ DataOf(doc) = Undef) => out = Ok(<<>>)

\* C10 witness: the yield pool rule, on a list of a pool without
\* `predictions` followed by a pool with them, returned two records, the
\* first with every predictions sub-field undefined.
C10_Witness ==
    /\ applied /\ rule = Yield /\ WellFormedList(Yield, doc) /\ out.ok
    /\ ContainerOf(Yield, doc).v = <<PoolNoPredictions, PoolFull>>
    /\ Len(out.val) = 2
    /\ Get(out.val[1], "project") = Str("gmx")
    /\ \A j \in 1..3 : Get(out.val[1], "predictions").v[j][2] = Undef
    /\ Get(Get(out.val[2], "predictions"), "predictedProbability") = Num(75)

----------------------------------------------------------------------------
(* Claims about the batch driver, under SpecDriver.                        *)

RunEnded == phase \in {"done", "crashed"}

\* the content processAllData is to write for category c: the rule's
\* output on the current input document, as one JSON array
ExpectedOutput(c) == Stringify(Arr(processor(c, inputFile[c]).val))

\* C3 (as claimed): when a run has ended and exactly one input file was
\* unreadable, that category wrote nothing, the other four were processed,
\* and each of them whose rule output is non-empty has its output file
\* written with that output.
C3_OneMissingOthersWritten ==
    (RunEnded /\ Cardinality({c \in Category : inputFile[c] = Unreadable}) = 1) =>
        \A c \in Category :
            IF inputFile[c] = Unreadable
            THEN writes[c] = 0 /\ outputFile[c] = before[c]
            ELSE /\ outcome[c] # "pending"
                 /\ Met(c) = "nonempty" =>
                        writes[c] = 1 /\ outputFile[c] = ExpectedOutput(c)

\* C4 (as claimed): a processor that raises on a readable document does not
\* end the run; the later categories are processed and the run reaches its
\* final step.
C4_FailureContained ==
    \A c \in Category :
        outcome[c] = "raised" =>
            /\ phase # "crashed"
            /\ RunEnded => \A later \in Category : outcome[later] # "pending"

\* C5: an output file is written only for a non-empty result; after an
\* unreadable input or an empty result it holds what it held before the
\* run; it is never emptied, and always holds the most recent non-empty
\* result of its category, if any.
C5_EmptyResultWritesNothing ==
    \A c \in Category :
        /\ writes[c] > 0 => outcome[c] = "nonempty"
        /\ outcome[c] \in {"unreadable", "empty"} => outputFile[c] = before[c]
        /\ outputFile[c] # Arr(<<>>)
        /\ outputFile[c] = lastGood[c]

\* C5 witness: a run has completed in which the yield pool rule returned
\* nothing and another input was unreadable, and both output files still
\* hold the output of an earlier run.
C5_Witness ==
    /\ phase = "done"
    /\ outcome[Yield] = "empty" /\ outputFile[Yield] # Absent
    /\ \E c \in Category : outcome[c] = "unreadable" /\ outputFile[c] # Absent

\* C6: an output file is written at most once in a run, and once written
\* it holds exactly the rule's output on the current input document, one
\* JSON array, whatever it held before.
C6_WriteReplacesContent ==
    \A c \in Category :
        /\ writes[c] <= 1
        /\ writes[c] = 1 =>
              /\ Met(c) = "nonempty"
              /\ outputFile[c].k = "arr"
              /\ outputFile[c] = ExpectedOutput(c)

\* C6 witness: the run wrote an output file that held the different output
\* of an earlier run.
C6_Witness ==
    \E c \in Category :
        /\ writes[c] = 1
        /\ before[c] # Absent
        /\ before[c] # outputFile[c]

----------------------------------------------------------------------------
(* Claims about the Collector, under SpecCollector.                        *)

\* the list whose length the summary counts for category c
ExpectedList(c, payload) ==
    IF c \in {Dex, Fee} THEN OptGet(payload, "protocols") ELSE payload

CountOf(c) ==
    CASE c = Tvl -> summary.protocolCount
      [] c = Dex -> summary.dexCount
      [] c = Yield -> summary.poolCount
      [] c = Stable -> summary.stablecoinCount
      [] c = Fee -> summary.feeProtocolCount

\* C7 (as claimed): at most one fetch is outstanding at a time, the fetches
\* are attempted in order, and when fetchAllData has returned all five were
\* attempted and the summary counts zero for every category whose fetch
\* failed or whose payload lacks the expected list.
C7_SummaryZeroWithoutList ==
    /\ Cardinality(inflight) <= 1
    /\ \A c \in Category : resp[c] # NoResponse => c < cpc
    /\ cpc = 7 =>
          /\ summary # NoSummary
          /\ \A c \in Category :
                /\ resp[c] # NoResponse
                /\ (resp[c] = Failure \/ ExpectedList(c, resp[c]).k # "arr")
                      => CountOf(c) = Num(0)

\* C8: once the fetch of a category has settled, its file was written (once)
\* exactly if the GET succeeded with a payload; then the file holds the
\* payload unmodified and the fetch returned it; otherwise the fetch
\* returned null and the file holds what it held before.  Before the fetch
\* settles the file is untouched.
C8_SavedIffPayloadObtained ==
    \A c \in Category :
        LET got == resp[c] \notin {NoResponse, Failure} /\ Truthy(resp[c])
        IN  /\ saved[c] = (IF got THEN 1 ELSE 0)
            /\ got => dataFile[c] = resp[c] /\ fetched[c] = resp[c]
            /\ ~got => dataFile[c] = cbefore[c]
            /\ (resp[c] # NoResponse /\ ~got) => fetched[c] = Null

\* C8 witness: a failed fetch left the file of an earlier run in place, a
\* fetch answered with an empty body wrote nothing, and a successful fetch
\* replaced an earlier file with its payload.
C8_Witness ==
    \E a, b, c \in Category :
        /\ resp[a] = Failure /\ dataFile[a] = OldPayload /\ fetched[a] = Null
        /\ resp[b] = Str("") /\ saved[b] = 0 /\ fetched[b] = Null
        /\ resp[c].k = "obj" /\ cbefore[c] = OldPayload
        /\ dataFile[c] = resp[c] /\ saved[c] = 1

====
